---- MODULE Spec2Model ----
(***************************************************************************)
(* The playback-control core of the audio player: the playback worker      *)
(* (AudioHandler::play_audio / handle_messages), the position reporter     *)
(* (AudioHandler::send_audio_pos), the UI controls that send commands      *)
(* (PlaybackButtons, the ProgressBar click handler) and the display        *)
(* (ProgressBar::update). The display's pure functions and the single-     *)
(* button variant of lib.rs have specifications of their own.              *)
(***************************************************************************)
EXTENDS Integers, Sequences, FiniteSets, TLC

(* ------------------------- program constants --------------------------- *)
\* PlaybackButtons::SEEK_DURATION = Duration::from_secs(5), in seconds
SEEK_DURATION_SECS == 5
\* ProgressBar::new: const WIDTH: i32 = 250
WIDTH == 250

(* ------------------------------ time scale ----------------------------- *)
\* Positions and durations are counted in steps of UnitSecs seconds: the sink's
\* position advances one step at a time, and the seek buttons move it by
\* SEEK_DURATION steps.
UnitSecs == SEEK_DURATION_SECS
SEEK_DURATION == SEEK_DURATION_SECS \div UnitSecs

(* ------------------------------ bounds --------------------------------- *)
\* total duration of the loaded track (decoder.total_duration()), in steps
AudioLength == 2
\* number of clicks (command sends, successful or not) the UI performs
MaxClicks == 2
\* number of samples that may wait on the position channel
MaxPosQueue == 2

\* largest position a seek can reach: one button step past the end of the track;
\* try_seek rejects every target beyond it
MaxPos == AudioLength + SEEK_DURATION

\* horizontal offsets (mouse_x - progress_bar_x) of the clicks that are tried:
\* left of the bar, its middle, right of the bar
ClickOffsets == {-5, WIDTH \div 2, WIDTH + 5}

VARIABLES
    sink,          \* AudioHandler.sink: "None" or "Some"
    stream,        \* AudioHandler.stream: "None" or "Some"
    paused,        \* the sink's play/pause state (Sink::is_paused)
    pos,           \* the sink's position (Sink::get_pos), seconds
    sinkLock,      \* holder of the Mutex around the sink: "free", "worker", "reporter"
    cmdQueue,      \* command channel: messages sent and not yet received
    cmdRxAlive,    \* the Receiver<Message> still exists
    posQueue,      \* position channel: samples sent and not yet received
    posRxAlive,    \* the Receiver<Duration> (owned by the ProgressBar) still exists
    workerPc,      \* position of the playback worker thread
    cur,           \* the message the worker is handling (NoMsg when none)
    currentPos,    \* fast_forward/rewind: let current_pos = sink.get_pos()
    targetPos,     \* fast_forward/rewind: let target_pos = ...
    seekResult,    \* result of the try_seek of the command in hand: "none", "Ok", "Err"
    seekCount,     \* try_seek calls made for the command in hand
    reporterPc,    \* position of the position reporter thread
    sample,        \* reporter: let current_pos = with_sink(.. sink.get_pos())
    btnLabel,      \* label of the play/pause button
    currentAudioPos, \* ProgressBar.current_audio_pos
    shownClamped,  \* the sample update() kept last lay beyond audio_length
    uiPc,          \* the UI thread: "running" or "panicked"
    nSent,         \* commands accepted by the command channel so far
    nFailed,       \* sends the UI saw fail (each one logged with eprintln!)
    handled,       \* ids of the commands the worker has handled, in handling order
    workerLog,     \* errors the worker logged with eprintln! for the command in hand
    samplesAfterDrop, \* samples the reporter read after the display was dropped
    streamLocal,   \* play_audio: the local `stream_handle` holds a live OutputStream
    streamsCreated, \* output streams opened so far (open_output_stream returned)
    sinksCreated,  \* sinks created so far (create_sink returned)
    call,          \* a call of one of the pure functions: its name, argument and result
    lib            \* the single-button variant of lib.rs: its App.sink, threads and button

vars == <<sink, stream, paused, pos, sinkLock, cmdQueue, cmdRxAlive, posQueue,
          posRxAlive, workerPc, cur, currentPos, targetPos, seekResult, seekCount,
          reporterPc, sample, btnLabel, currentAudioPos, shownClamped, uiPc,
          nSent, nFailed, handled, workerLog, samplesAfterDrop, streamLocal,
          streamsCreated, sinksCreated, call, lib>>

\* every variable of the playback machinery (all but `call`)
progVars == <<sink, stream, paused, pos, sinkLock, cmdQueue, cmdRxAlive, posQueue,
              posRxAlive, workerPc, cur, currentPos, targetPos, seekResult, seekCount,
              reporterPc, sample, btnLabel, currentAudioPos, shownClamped, uiPc,
              nSent, nFailed, handled, workerLog, samplesAfterDrop, streamLocal,
              streamsCreated, sinksCreated>>
sinkVars   == <<sink, stream, paused, pos>>
resVars    == <<streamLocal, streamsCreated, sinksCreated>>
workerVars == <<workerPc, cur, currentPos, targetPos, seekResult, seekCount, handled, workerLog>>
reportVars == <<reporterPc, sample, samplesAfterDrop>>
uiVars     == <<btnLabel, currentAudioPos, shownClamped, uiPc, nSent, nFailed>>

(* ------------------------------ messages ------------------------------- *)
\* enum Message { Play, Pause, FastForward(Duration), Rewind(Duration) }
Message(kind, d, id) == [kind |-> kind, d |-> d, id |-> id]
NoMsg == [kind |-> "none", d |-> 0, id |-> 0]

PLAY_BUTTON == "play-icon"
PAUSE_BUTTON == "pause-icon"

\* Option<Duration>::None of checked_sub
NoDuration == -1

(* --------------------------- pure functions ---------------------------- *)
Min(a, b) == IF a < b THEN a ELSE b
Max(a, b) == IF a > b THEN a ELSE b

\* Duration::checked_sub: None when the subtraction would underflow
CheckedSub(a, b) == IF b > a THEN NoDuration ELSE a - b

\* Option::unwrap_or
UnwrapOr(opt, default) == IF opt = NoDuration THEN default ELSE opt

\* mutant: the requested delta is taken for the absolute target
FastForwardTargetRelative(p, d) == d

\* fast_forward: let target_pos = current_pos + duration_secs
FastForwardTarget(p, d) == p + d

\* mutant: plain subtraction, without the checked_sub floor
RewindTargetUnchecked(p, d) == p - d

\* rewind: current_pos.checked_sub(duration_secs).unwrap_or(Duration::ZERO)
RewindTarget(p, d) == UnwrapOr(CheckedSub(p, d), 0)

\* Sink::try_seek: the outcomes the seek primitive can give for a target
TrySeekOutcomes(target) == IF target <= MaxPos THEN {"Ok", "Err"} ELSE {"Err"}

\* mutant: only the lower bound is enforced
ClampLowOnly(p, lo, hi) == IF p < lo THEN lo ELSE p

\* pos.clamp(Duration::ZERO, self.audio_length)
Clamp(p, lo, hi) == IF p < lo THEN lo ELSE IF p > hi THEN hi ELSE p

\* mutant: the message is chosen but the label is left as it was
HandlePlayPauseClickSameLabel(label) ==
    IF label = PAUSE_BUTTON THEN <<label, "Pause">> ELSE <<label, "Play">>

\* mutant: the click always asks for Pause
HandlePlayPauseClickStuck(label) == <<PLAY_BUTTON, "Pause">>

\* PlaybackButtons::handle_play_pause_click: (new label, message kind)
HandlePlayPauseClick(label) ==
    IF label = PAUSE_BUTTON THEN <<PLAY_BUTTON, "Pause">> ELSE <<PAUSE_BUTTON, "Play">>

\* mutant: the offset of the mouse is taken as it is
RelXUnclamped(off) == off

\* the Push handler: rel_x clamped to the bar, then the position to seek to
RelX(off) == Min(Max(off, 0), WIDTH)
PositionToSeek(off) == (AudioLength * RelX(off)) \div WIDTH

(* -------------------------------- Init --------------------------------- *)
\* no pure function is being called
NoCall == [f |-> "none", arg |-> <<>>, done |-> TRUE, out |-> <<>>]

\* the playback machinery right after AudioHandler::new, PlaybackButtons::new and
\* ProgressBar::new
Constructed ==
    /\ sink = "None"
    /\ stream = "None"
    /\ paused = FALSE
    /\ pos = 0
    /\ sinkLock = "free"
    /\ cmdQueue = <<>>
    /\ cmdRxAlive = TRUE
    /\ posQueue = <<>>
    /\ posRxAlive = TRUE
    /\ workerPc = "open"
    /\ cur = NoMsg
    /\ currentPos = 0
    /\ targetPos = 0
    /\ seekResult = "none"
    /\ seekCount = 0
    /\ reporterPc = "unspawned"
    /\ sample = 0
    /\ btnLabel = PAUSE_BUTTON
    /\ currentAudioPos = 0
    /\ shownClamped = FALSE
    /\ uiPc = "running"
    /\ nSent = 0
    /\ nFailed = 0
    /\ handled = <<>>
    /\ workerLog = 0
    /\ samplesAfterDrop = 0
    /\ streamLocal = FALSE
    /\ streamsCreated = 0
    /\ sinksCreated = 0

\* the variant of lib.rs when App::run has spawned the audio thread and built the
\* button: the sink slot is empty, the mutex free, the button shows the pause icon
LibNew ==
    [sink |-> "None", guard |-> "free", poisoned |-> FALSE, audioPc |-> "open",
     uiPc |-> "idle", exited |-> FALSE, paused |-> FALSE, pos |-> 0,
     label |-> PAUSE_BUTTON, clicks |-> 0, events |-> 0]

Init == Constructed /\ call = NoCall /\ lib = LibNew

(* ------------------------- the command channel ------------------------- *)
\* mutant: the callback unwraps the send result, so a failed send panics the UI thread
SendOutcomeUnwrap(kind, d) ==
    IF cmdRxAlive
    THEN /\ cmdQueue' = Append(cmdQueue, Message(kind, d, nSent + 1))
         /\ nSent' = nSent + 1
         /\ UNCHANGED <<nFailed, uiPc>>
    ELSE /\ uiPc' = "panicked"
         /\ UNCHANGED <<cmdQueue, nSent, nFailed>>

\* mutant: a channel of capacity one (sync_channel(1)), whose send waits for room
SendOutcomeBounded(kind, d) ==
    IF cmdRxAlive
    THEN /\ Len(cmdQueue) < 1
         /\ cmdQueue' = Append(cmdQueue, Message(kind, d, nSent + 1))
         /\ nSent' = nSent + 1
         /\ UNCHANGED <<nFailed, uiPc>>
    ELSE /\ nFailed' = nFailed + 1
         /\ UNCHANGED <<cmdQueue, nSent, uiPc>>

\* mpsc::Sender::send from a UI callback: Ok when the receiver exists, Err otherwise.
\* The callbacks log the Err (eprintln!) and return.
SendOutcome(kind, d) ==
    IF cmdRxAlive
    THEN /\ cmdQueue' = Append(cmdQueue, Message(kind, d, nSent + 1))
         /\ nSent' = nSent + 1
         /\ UNCHANGED <<nFailed, uiPc>>
    ELSE /\ nFailed' = nFailed + 1
         /\ UNCHANGED <<cmdQueue, nSent, uiPc>>

CanClick == uiPc = "running" /\ nSent + nFailed < MaxClicks

\* mutant: the callback also flips the sink itself, as the callback of lib.rs does
ClickPlayPauseDirect ==
    /\ CanClick
    /\ btnLabel' = HandlePlayPauseClick(btnLabel)[1]
    /\ paused' = (HandlePlayPauseClick(btnLabel)[2] = "Pause")
    /\ SendOutcome(HandlePlayPauseClick(btnLabel)[2], 0)
    /\ UNCHANGED <<sink, stream, pos, resVars, sinkLock, cmdRxAlive, posQueue,
                   posRxAlive, workerVars, reportVars, currentAudioPos, shownClamped>>
    /\ UNCHANGED <<call, lib>>

\* create_play_button callback
ClickPlayPause ==
    /\ CanClick
    /\ btnLabel' = HandlePlayPauseClick(btnLabel)[1]
    /\ SendOutcome(HandlePlayPauseClick(btnLabel)[2], 0)
    /\ UNCHANGED <<sinkVars, resVars, sinkLock, cmdRxAlive, posQueue, posRxAlive, workerVars,
                   reportVars, currentAudioPos, shownClamped>>
    /\ UNCHANGED <<call, lib>>

\* create_fast_forward_button callback
ClickFastForward ==
    /\ CanClick
    /\ SendOutcome("FastForward", SEEK_DURATION)
    /\ UNCHANGED <<sinkVars, resVars, sinkLock, cmdRxAlive, posQueue, posRxAlive, workerVars,
                   reportVars, btnLabel, currentAudioPos, shownClamped>>
    /\ UNCHANGED <<call, lib>>

\* create_rewind_button callback
ClickRewind ==
    /\ CanClick
    /\ SendOutcome("Rewind", SEEK_DURATION)
    /\ UNCHANGED <<sinkVars, resVars, sinkLock, cmdRxAlive, posQueue, posRxAlive, workerVars,
                   reportVars, btnLabel, currentAudioPos, shownClamped>>
    /\ UNCHANGED <<call, lib>>

\* ProgressBar::new, Event::Push handler (left button)
ClickProgressBar ==
    /\ CanClick
    /\ posRxAlive
    /\ \E off \in ClickOffsets :
         LET position_to_seek == PositionToSeek(off) IN
         IF position_to_seek > currentAudioPos
         THEN SendOutcome("FastForward", position_to_seek - currentAudioPos)
         ELSE SendOutcome("Rewind", currentAudioPos - position_to_seek)
    /\ UNCHANGED <<sinkVars, resVars, sinkLock, cmdRxAlive, posQueue, posRxAlive, workerVars,
                   reportVars, btnLabel, currentAudioPos, shownClamped>>
    /\ UNCHANGED <<call, lib>>

\* mutant: update takes one sample, the oldest, and returns
DrainOne(q, shown) == IF q = <<>> THEN shown ELSE Clamp(Head(q), 0, AudioLength)

\* ProgressBar::update: drain the position channel, keep the newest sample, clamped
RECURSIVE Drain(_, _)
Drain(q, shown) ==
    IF q = <<>> THEN shown
    ELSE Drain(Tail(q), Clamp(Head(q), 0, AudioLength))

Update ==
    /\ uiPc = "running"
    /\ posRxAlive
    /\ currentAudioPos' = Drain(posQueue, currentAudioPos)
    /\ shownClamped' = IF posQueue = <<>> THEN shownClamped
                       ELSE posQueue[Len(posQueue)] > AudioLength
    /\ posQueue' = <<>>
    /\ UNCHANGED <<sinkVars, resVars, sinkLock, cmdQueue, cmdRxAlive, posRxAlive, workerVars,
                   reportVars, btnLabel, uiPc, nSent, nFailed>>
    /\ UNCHANGED <<call, lib>>

(* --------------------------- playback worker --------------------------- *)
\* play_audio: open_output_stream().expect(..) panics the thread when no device opens
WorkerOpen ==
    /\ workerPc = "open"
    /\ \/ /\ workerPc' = "store_sink"
          /\ streamLocal' = TRUE
          /\ streamsCreated' = streamsCreated + 1
       \/ /\ workerPc' = "panicked"
          /\ UNCHANGED <<streamLocal, streamsCreated>>
    /\ UNCHANGED <<sinkVars, sinksCreated, sinkLock, cmdQueue, cmdRxAlive, posQueue, posRxAlive,
                   cur, currentPos, targetPos, seekResult, seekCount, handled, workerLog,
                   reportVars, uiVars>>
    /\ UNCHANGED <<call, lib>>

\* mutant: the sink is created paused
NewSinkPausedTrue == TRUE

\* Sink::connect_new and sink.append(decoder): the new sink is not paused, so the
\* appended source starts to play at once
NewSinkPaused == FALSE

\* mutant: the sink is created and started but the shared slot is left empty
WorkerStoreSinkForgotten ==
    /\ workerPc = "store_sink"
    /\ sinkLock = "free"
    /\ sinksCreated' = sinksCreated + 1
    /\ paused' = NewSinkPaused
    /\ workerPc' = "store_stream"
    /\ UNCHANGED <<sink, stream, pos, streamLocal, streamsCreated, sinkLock,
                   cmdQueue, cmdRxAlive, posQueue, posRxAlive, cur, currentPos,
                   targetPos, seekResult, seekCount, handled, workerLog, reportVars,
                   uiVars>>
    /\ UNCHANGED <<call, lib>>

\* create_sink, sink.append(decoder), *sink_ref.lock().unwrap() = Some(sink)
WorkerStoreSink ==
    /\ workerPc = "store_sink"
    /\ sinkLock = "free"
    /\ sink' = "Some"
    /\ sinksCreated' = sinksCreated + 1
    /\ paused' = NewSinkPaused
    /\ workerPc' = "store_stream"
    /\ UNCHANGED <<stream, pos, streamLocal, streamsCreated, sinkLock, cmdQueue, cmdRxAlive, posQueue,
                   posRxAlive, cur, currentPos, targetPos, seekResult, seekCount,
                   handled, workerLog, reportVars, uiVars>>
    /\ UNCHANGED <<call, lib>>

\* mutant: the stream handle is dropped instead of being kept in the shared slot
WorkerStoreStreamDropped ==
    /\ workerPc = "store_stream"
    /\ streamLocal' = FALSE
    /\ workerPc' = "spawn"
    /\ UNCHANGED <<sinkVars, streamsCreated, sinksCreated, sinkLock, cmdQueue,
                   cmdRxAlive, posQueue, posRxAlive, cur, currentPos, targetPos,
                   seekResult, seekCount, handled, workerLog, reportVars, uiVars>>
    /\ UNCHANGED <<call, lib>>

\* *stream_ref.lock().unwrap() = Some(stream_handle)
WorkerStoreStream ==
    /\ workerPc = "store_stream"
    /\ stream' = "Some"
    /\ streamLocal' = FALSE
    /\ workerPc' = "spawn"
    /\ UNCHANGED <<sink, paused, pos, streamsCreated, sinksCreated, sinkLock, cmdQueue, cmdRxAlive, posQueue,
                   posRxAlive, cur, currentPos, targetPos, seekResult, seekCount,
                   handled, workerLog, reportVars, uiVars>>
    /\ UNCHANGED <<call, lib>>

\* AudioHandler::send_audio_pos(..): thread::spawn of the reporter
WorkerSpawnReporter ==
    /\ workerPc = "spawn"
    /\ reporterPc' = "lock"
    /\ workerPc' = "recv"
    /\ UNCHANGED <<sinkVars, resVars, sinkLock, cmdQueue, cmdRxAlive, posQueue, posRxAlive,
                   cur, currentPos, targetPos, seekResult, seekCount, handled, workerLog,
                   sample, samplesAfterDrop, uiVars>>
    /\ UNCHANGED <<call, lib>>

\* mutant: the newest message is handed out first
NextMessageNewest(q) == q[Len(q)]

\* the message recv() hands to the worker
NextMessage(q) == Head(q)
RestMessages(q) == Tail(q)

\* mutant: a receive that gives up on an empty queue, its error unwrapped
\* (try_recv().unwrap())
WorkerRecvNoWait ==
    /\ workerPc = "recv"
    /\ cmdRxAlive
    /\ IF cmdQueue # <<>>
       THEN /\ cur' = NextMessage(cmdQueue)
            /\ cmdQueue' = RestMessages(cmdQueue)
            /\ workerPc' = "lock"
       ELSE /\ workerPc' = "panicked"
            /\ UNCHANGED <<cur, cmdQueue>>
    /\ UNCHANGED <<sinkVars, resVars, sinkLock, cmdRxAlive, posQueue, posRxAlive,
                   currentPos, targetPos, seekResult, seekCount, workerLog, handled,
                   reportVars, uiVars>>
    /\ UNCHANGED <<call, lib>>

\* loop { let message = receiver.lock().unwrap().recv().unwrap(); ..
WorkerRecv ==
    /\ workerPc = "recv"
    /\ cmdRxAlive
    /\ cmdQueue # <<>>
    /\ cur' = NextMessage(cmdQueue)
    /\ cmdQueue' = RestMessages(cmdQueue)
    /\ workerPc' = "lock"
    /\ UNCHANGED <<sinkVars, resVars, sinkLock, cmdRxAlive, posQueue, posRxAlive, currentPos,
                   targetPos, seekResult, seekCount, workerLog, handled, reportVars,
                   uiVars>>
    /\ UNCHANGED <<call, lib>>

\* mutant: the sink is reached without waiting for the mutex
WithSinkEnterUnlocked(who) == sinkLock' = who

\* with_sink: sink_ref.lock().unwrap(), guard.as_ref().expect("Sink not initialized")
WithSinkEnter(who) ==
    /\ sinkLock = "free"
    /\ sinkLock' = who

\* mutant: play() and pause() are swapped
PausedAfterSwapped(kind) == (kind = "Play")

\* sink.play() for Message::Play, sink.pause() for Message::Pause: the sink's
\* paused flag afterwards
PausedAfter(kind) == (kind = "Pause")

\* handle_messages: with_sink is entered, then the closure of Play / Pause runs, or
\* the first statements of fast_forward / rewind (get_pos and the target)
WorkerLock ==
    /\ workerPc = "lock"
    /\ WithSinkEnter("worker")
    /\ IF sink # "Some"
       THEN /\ workerPc' = "panicked"
            /\ UNCHANGED <<paused, currentPos, targetPos>>
       ELSE \/ /\ cur.kind = "Play"
               /\ paused' = PausedAfter("Play")
               /\ workerPc' = "unlock"
               /\ UNCHANGED <<currentPos, targetPos>>
            \/ /\ cur.kind = "Pause"
               /\ paused' = PausedAfter("Pause")
               /\ workerPc' = "unlock"
               /\ UNCHANGED <<currentPos, targetPos>>
            \/ /\ cur.kind = "FastForward"
               /\ currentPos' = pos
               /\ targetPos' = FastForwardTarget(pos, cur.d)
               /\ workerPc' = "seek"
               /\ UNCHANGED paused
            \/ /\ cur.kind = "Rewind"
               /\ currentPos' = pos
               /\ targetPos' = RewindTarget(pos, cur.d)
               /\ workerPc' = "seek"
               /\ UNCHANGED paused
    /\ UNCHANGED <<sink, stream, pos, resVars, cmdQueue, cmdRxAlive, posQueue,
                   posRxAlive, cur, seekResult, seekCount, handled, workerLog,
                   reportVars, uiVars>>
    /\ UNCHANGED <<call, lib>>

\* mutant: the result of try_seek is unwrapped
AfterSeekUnwrap(res) ==
    /\ workerPc' = IF res = "Err" THEN "panicked" ELSE "send"
    /\ workerLog' = workerLog

\* mutant: a failed seek is tried again
AfterSeekRetry(res) ==
    /\ workerPc' = IF res = "Err" /\ seekCount = 0 THEN "seek" ELSE "send"
    /\ workerLog' = IF res = "Err" THEN workerLog + 1 ELSE workerLog

\* what the worker does after try_seek returned `res`: Ok(_) => (), Err(e) => eprintln!
AfterSeek(res) ==
    /\ workerPc' = "send"
    /\ workerLog' = IF res = "Err" THEN workerLog + 1 ELSE workerLog

\* match sink.try_seek(target_pos) { Ok(_) => (), Err(e) => eprintln!(..) }
WorkerSeek ==
    /\ workerPc = "seek"
    /\ \E res \in TrySeekOutcomes(targetPos) :
         /\ seekResult' = res
         /\ pos' = IF res = "Ok" THEN targetPos ELSE pos
         /\ AfterSeek(res)
    /\ seekCount' = seekCount + 1
    /\ UNCHANGED <<sink, stream, paused, resVars, sinkLock, cmdQueue, cmdRxAlive,
                   posQueue, posRxAlive, cur, currentPos, targetPos, handled,
                   reportVars, uiVars>>
    /\ UNCHANGED <<call, lib>>

\* mutant: the result of the send of the target is unwrapped
WorkerSendPosUnwrap ==
    /\ workerPc = "send"
    /\ IF posRxAlive
       THEN /\ Len(posQueue) < MaxPosQueue
            /\ posQueue' = Append(posQueue, targetPos)
            /\ workerPc' = "unlock"
       ELSE /\ workerPc' = "panicked"
            /\ UNCHANGED posQueue
    /\ UNCHANGED <<sinkVars, resVars, sinkLock, cmdQueue, cmdRxAlive, posRxAlive, cur,
                   currentPos, targetPos, seekResult, seekCount, handled, workerLog,
                   reportVars, uiVars>>
    /\ UNCHANGED <<call, lib>>

\* match audio_pos_sender.send(target_pos) { Ok(_) => (), Err(e) => eprintln!(..) }
WorkerSendPos ==
    /\ workerPc = "send"
    /\ IF posRxAlive
       THEN /\ Len(posQueue) < MaxPosQueue
            /\ posQueue' = Append(posQueue, targetPos)
            /\ UNCHANGED workerLog
       ELSE /\ workerLog' = workerLog + 1
            /\ UNCHANGED posQueue
    /\ workerPc' = "unlock"
    /\ UNCHANGED <<sinkVars, resVars, sinkLock, cmdQueue, cmdRxAlive, posRxAlive, cur,
                   currentPos, targetPos, seekResult, seekCount, handled, reportVars,
                   uiVars>>
    /\ UNCHANGED <<call, lib>>

\* mutant: the guard is leaked (mem::forget), the mutex stays locked
WithSinkExitLeaked == sinkLock' = sinkLock

\* with_sink returns: the MutexGuard is dropped; handle_messages returns
WithSinkExit == sinkLock' = "free"

\* mutant: after each command the worker builds its sink anew
WorkerUnlockRecreate ==
    /\ workerPc = "unlock"
    /\ WithSinkExit
    /\ handled' = Append(handled, cur.id)
    /\ cur' = NoMsg
    /\ currentPos' = 0
    /\ targetPos' = 0
    /\ seekResult' = "none"
    /\ seekCount' = 0
    /\ workerLog' = 0
    /\ workerPc' = "store_sink"
    /\ UNCHANGED <<sinkVars, resVars, cmdQueue, cmdRxAlive, posQueue, posRxAlive,
                   reportVars, uiVars>>
    /\ UNCHANGED <<call, lib>>

\* handle_messages has returned: the next iteration of the loop
WorkerUnlock ==
    /\ workerPc = "unlock"
    /\ WithSinkExit
    /\ handled' = Append(handled, cur.id)
    /\ cur' = NoMsg
    /\ currentPos' = 0
    /\ targetPos' = 0
    /\ seekResult' = "none"
    /\ seekCount' = 0
    /\ workerLog' = 0
    /\ workerPc' = "recv"
    /\ UNCHANGED <<sinkVars, resVars, cmdQueue, cmdRxAlive, posQueue, posRxAlive, reportVars,
                   uiVars>>
    /\ UNCHANGED <<call, lib>>

(* -------------------------- position reporter -------------------------- *)
\* with_sink(&new_sink_ref, |sink| { ..: the lock is taken, then the closure runs
ReporterLock ==
    /\ reporterPc = "lock"
    /\ WithSinkEnter("reporter")
    /\ reporterPc' = IF sink = "Some" THEN "sleep" ELSE "panicked"
    /\ UNCHANGED <<sinkVars, resVars, cmdQueue, cmdRxAlive, posQueue, posRxAlive, workerVars,
                   sample, samplesAfterDrop, uiVars>>
    /\ UNCHANGED <<call, lib>>

\* thread::sleep(100 ms); sink.get_pos(); the closure returns and the guard is dropped
ReporterRead ==
    /\ reporterPc = "sleep"
    /\ sample' = pos
    /\ samplesAfterDrop' = IF posRxAlive THEN samplesAfterDrop ELSE samplesAfterDrop + 1
    /\ sinkLock' = "free"
    /\ reporterPc' = "send"
    /\ UNCHANGED <<sinkVars, resVars, cmdQueue, cmdRxAlive, posQueue, posRxAlive, workerVars,
                   uiVars>>
    /\ UNCHANGED <<call, lib>>

\* mutant: the failed send is ignored and the loop goes on
ReporterAfterSendErrContinue == "lock"

\* where the reporter goes after a failed send: Err(_) => break
ReporterAfterSendErr == "done"

\* mutant: the sample overtakes the samples still waiting on the channel
ReporterSendFront ==
    /\ reporterPc = "send"
    /\ IF posRxAlive
       THEN /\ Len(posQueue) < MaxPosQueue
            /\ posQueue' = <<sample>> \o posQueue
            /\ reporterPc' = "lock"
       ELSE /\ reporterPc' = ReporterAfterSendErr
            /\ UNCHANGED posQueue
    /\ sample' = 0
    /\ UNCHANGED <<sinkVars, resVars, sinkLock, cmdQueue, cmdRxAlive, posRxAlive,
                   workerVars, samplesAfterDrop, uiVars>>
    /\ UNCHANGED <<call, lib>>

\* match audio_pos_sender.send(current_pos) { Ok(_) => (), Err(_) => break }
ReporterSend ==
    /\ reporterPc = "send"
    /\ IF posRxAlive
       THEN /\ Len(posQueue) < MaxPosQueue
            /\ posQueue' = Append(posQueue, sample)
            /\ reporterPc' = "lock"
       ELSE /\ reporterPc' = ReporterAfterSendErr
            /\ UNCHANGED posQueue
    /\ sample' = 0
    /\ UNCHANGED <<sinkVars, resVars, sinkLock, cmdQueue, cmdRxAlive, posRxAlive, workerVars,
                   samplesAfterDrop, uiVars>>
    /\ UNCHANGED <<call, lib>>

(* ----------------------------- environment ----------------------------- *)
\* the output device plays one second of the appended source
Tick ==
    /\ sink = "Some"
    /\ ~paused
    /\ pos < AudioLength
    /\ pos' = pos + 1
    /\ UNCHANGED <<sink, stream, paused, resVars, sinkLock, cmdQueue, cmdRxAlive,
                   posQueue, posRxAlive, workerVars, reportVars, uiVars>>
    /\ UNCHANGED <<call, lib>>

\* the ProgressBar, owner of audio_pos_receiver, is dropped
DropDisplay ==
    /\ posRxAlive
    /\ posRxAlive' = FALSE
    /\ posQueue' = <<>>
    /\ UNCHANGED <<sinkVars, resVars, sinkLock, cmdQueue, cmdRxAlive, workerVars, reportVars,
                   uiVars>>
    /\ UNCHANGED <<call, lib>>

\* the worker is gone: its thread has unwound and the Receiver<Message> it owned
\* through the Arc is dropped, together with the messages still queued
DropReceiver ==
    /\ workerPc = "panicked"
    /\ cmdRxAlive
    /\ cmdRxAlive' = FALSE
    /\ cmdQueue' = <<>>
    /\ UNCHANGED <<sinkVars, resVars, sinkLock, posQueue, posRxAlive, workerVars, reportVars,
                   uiVars>>
    /\ UNCHANGED <<call, lib>>

Next ==
    \/ ClickPlayPause
    \/ ClickFastForward
    \/ ClickRewind
    \/ ClickProgressBar
    \/ Update
    \/ WorkerOpen
    \/ WorkerStoreSink
    \/ WorkerStoreStream
    \/ WorkerSpawnReporter
    \/ WorkerRecv
    \/ WorkerLock
    \/ WorkerSeek
    \/ WorkerSendPos
    \/ WorkerUnlock
    \/ ReporterLock
    \/ ReporterRead
    \/ ReporterSend
    \/ Tick
    \/ DropDisplay
    \/ DropReceiver

Spec == Init /\ [][Next]_vars

\* scheduling: every thread that can take a step eventually takes one, and the
\* UI's main loop keeps calling update()
Fairness ==
    /\ WF_vars(WorkerOpen \/ WorkerStoreSink \/ WorkerStoreStream \/ WorkerSpawnReporter)
    /\ WF_vars(WorkerRecv)
    /\ SF_vars(WorkerLock)
    /\ WF_vars(WorkerSeek)
    /\ WF_vars(WorkerSendPos)
    /\ WF_vars(WorkerUnlock)
    /\ SF_vars(ReporterLock)
    /\ WF_vars(ReporterRead)
    /\ WF_vars(ReporterSend)
    /\ WF_vars(Update)

FairSpec == Init /\ [][Next]_vars /\ Fairness

\* scheduling alone: every thread that stays able to take its next step takes it,
\* and the UI's main loop keeps calling update(). std::sync::Mutex does not say
\* which of the threads that want the lock gets it, so a thread that waits for
\* the lock has no more than this
SchedFairness ==
    /\ WF_vars(WorkerOpen \/ WorkerStoreSink \/ WorkerStoreStream \/ WorkerSpawnReporter)
    /\ WF_vars(WorkerRecv)
    /\ WF_vars(WorkerLock)
    /\ WF_vars(WorkerSeek)
    /\ WF_vars(WorkerSendPos)
    /\ WF_vars(WorkerUnlock)
    /\ WF_vars(ReporterLock)
    /\ WF_vars(ReporterRead)
    /\ WF_vars(ReporterSend)
    /\ WF_vars(Update)

SchedSpec == Init /\ [][Next]_vars /\ SchedFairness

(* ===================== the single-button variant ======================= *)
(* lib.rs: App::play_audio spawns the audio thread, which creates the sink,   *)
(* stores it in App.sink and waits for the end of the track; the callback of  *)
(* the play button reaches the sink through the same mutex. The state of the  *)
(* variant is the record `lib`.                                               *)

\* the length of the track in seconds: the variant has no seek, its position is
\* counted second by second
LibAudioSecs == AudioLength * UnitSecs

\* the sink created by rodio::play exists (it is dropped with the audio thread
\* when that thread panics before storing it)
LibSinkExists == lib.audioPc \in {"lock", "sleep", "done"}

\* open_default_stream().expect(..): the audio thread panics without a device
LibOpenStream ==
    /\ ~lib.exited
    /\ lib.audioPc = "open"
    /\ \E ok \in BOOLEAN :
         lib' = [lib EXCEPT !.audioPc = IF ok THEN "file" ELSE "panicked"]
    /\ UNCHANGED <<progVars, call>>

\* File::open(file_path): Err => exit(1)
LibOpenFile ==
    /\ ~lib.exited
    /\ lib.audioPc = "file"
    /\ \E ok \in BOOLEAN :
         lib' = IF ok THEN [lib EXCEPT !.audioPc = "play"]
                ELSE [lib EXCEPT !.exited = TRUE]
    /\ UNCHANGED <<progVars, call>>

\* rodio::play(&stream_handle.mixer(), file): the sink plays at once; Err => exit(1)
LibPlay ==
    /\ ~lib.exited
    /\ lib.audioPc = "play"
    /\ \E ok \in BOOLEAN :
         lib' = IF ok THEN [lib EXCEPT !.audioPc = "lock", !.paused = FALSE]
                ELSE [lib EXCEPT !.exited = TRUE]
    /\ UNCHANGED <<progVars, call>>

\* let mut mutex_guard = sink_ref.lock().unwrap(); *mutex_guard = Some(sink);
\* the guard lives to the end of the closure. A poisoned mutex panics the thread
LibStoreSink ==
    /\ ~lib.exited
    /\ lib.audioPc = "lock"
    /\ lib.guard = "free"
    /\ lib' = IF lib.poisoned
              THEN [lib EXCEPT !.audioPc = "panicked"]
              ELSE [lib EXCEPT !.guard = "audio", !.sink = "Some", !.audioPc = "sleep"]
    /\ UNCHANGED <<progVars, call>>

\* mutex_guard.as_ref().unwrap().sleep_until_end() returns when the sink has
\* played the whole track; the closure ends and the guard is dropped
LibSleepUntilEnd ==
    /\ ~lib.exited
    /\ lib.audioPc = "sleep"
    /\ lib.pos = LibAudioSecs
    /\ lib' = [lib EXCEPT !.guard = "free", !.audioPc = "done"]
    /\ UNCHANGED <<progVars, call>>

\* the output device plays one second of the track
LibTick ==
    /\ ~lib.exited
    /\ LibSinkExists
    /\ ~lib.paused
    /\ lib.pos < LibAudioSecs
    /\ lib' = [lib EXCEPT !.pos = lib.pos + 1]
    /\ UNCHANGED <<progVars, call>>

\* the user clicks the play button: the event waits until the UI thread is back
\* in its event loop
LibClick ==
    /\ ~lib.exited
    /\ lib.uiPc # "panicked"
    /\ lib.clicks < MaxClicks
    /\ lib' = [lib EXCEPT !.events = lib.events + 1, !.clicks = lib.clicks + 1]
    /\ UNCHANGED <<progVars, call>>

\* self.app.run(): fltk takes the next click and runs the callback of the button
LibRunCallback ==
    /\ ~lib.exited
    /\ lib.uiPc = "idle"
    /\ lib.events > 0
    /\ lib' = [lib EXCEPT !.uiPc = "lock", !.events = lib.events - 1]
    /\ UNCHANGED <<progVars, call>>

\* the callback: sink_ref.lock().unwrap() waits for the mutex, then
\* mutex_guard.as_ref().unwrap() panics on an empty slot; the guard is dropped
\* by the unwinding, which poisons the mutex
LibCallbackLock ==
    /\ ~lib.exited
    /\ lib.uiPc = "lock"
    /\ lib.guard = "free"
    /\ lib' = IF lib.poisoned THEN [lib EXCEPT !.uiPc = "panicked"]
              ELSE IF lib.sink = "None"
                   THEN [lib EXCEPT !.uiPc = "panicked", !.poisoned = TRUE]
                   ELSE [lib EXCEPT !.guard = "ui", !.uiPc = "toggle"]
    /\ UNCHANGED <<progVars, call>>

\* match sink.is_paused() { true => play, false => pause }, with the label of the
\* other state; the callback returns and the guard is dropped
LibCallbackToggle ==
    /\ ~lib.exited
    /\ lib.uiPc = "toggle"
    /\ lib' = [lib EXCEPT !.paused = ~lib.paused,
                          !.label = IF lib.paused THEN PAUSE_BUTTON ELSE PLAY_BUTTON,
                          !.guard = "free",
                          !.uiPc = "idle"]
    /\ UNCHANGED <<progVars, call>>

LibNext ==
    \/ LibOpenStream
    \/ LibOpenFile
    \/ LibPlay
    \/ LibStoreSink
    \/ LibSleepUntilEnd
    \/ LibTick
    \/ LibClick
    \/ LibRunCallback
    \/ LibCallbackLock
    \/ LibCallbackToggle

LibSpec == Init /\ [][LibNext]_vars

(* ====================== the functions of the display ==================== *)
(* The functions of NowPlaying and ProgressBar that compute what is shown   *)
(* are applied one call at a time: FnInit draws the function and its        *)
(* argument, the action of the function applies it and stores the result.   *)

\* a call that waits to be applied
Pending(f, arg) == [f |-> f, arg |-> arg, done |-> FALSE, out |-> <<>>]

\* the call, applied, with its result
Returned(c, out) == [c EXCEPT !.done = TRUE, !.out = out]

\* all sequences over S of length at most n
SeqsUpTo(S, n) == UNION {[1..k -> S] : k \in 0..n}

(* --------------------------- NowPlaying: tags -------------------------- *)
\* Option<T>: None is the empty sequence, Some(x) the sequence <<x>>
None == <<>>
Some(x) == <<x>>

\* Option::or_else
OrElse(opt, other) == IF opt = None THEN other ELSE opt

\* Result<T, E>
Ok(v) == <<"Ok", v>>
Err(e) == <<"Err", e>>

\* number of tags a file may carry
MaxTags == 2

\* a lofty Tag: whether its type is the primary type of the file format, its
\* title, its artist and its pictures
Tag(primary, title, artist, pictures) ==
    [primary |-> primary, title |-> title, artist |-> artist, pictures |-> pictures]

\* the tags tried for parse_file: with and without title and artist, no picture
PlainTags ==
    {Tag(p, t, a, <<>>) : p \in BOOLEAN,
                          t \in {None, Some("less than lovers")},
                          a \in {None, Some("Kensuke Ushio")}}

\* a path on disk: nothing there, a file lofty cannot read, or a tagged file
MissingFile == [state |-> "missing", tags |-> <<>>]
UnreadableFile == [state |-> "unreadable", tags |-> <<>>]
TaggedFile(tags) == [state |-> "tagged", tags |-> tags]

\* lofty::read_from_path
ReadFromPath(file) ==
    CASE file.state = "missing" -> Err("Io")
      [] file.state = "unreadable" -> Err("UnknownFormat")
      [] OTHER -> Ok(file.tags)

\* TaggedFileExt::primary_tag: the tag of the format's primary type, if any
PrimaryTag(tags) ==
    IF \E i \in 1..Len(tags) : tags[i].primary
    THEN Some(tags[CHOOSE i \in 1..Len(tags) :
                     tags[i].primary /\ \A j \in 1..(i - 1) : ~tags[j].primary])
    ELSE None

\* TaggedFileExt::first_tag
FirstTag(tags) == IF tags = <<>> THEN None ELSE Some(tags[1])

\* mutant: the first tag is preferred to the primary tag
ParseFileFirstTag(file) ==
    LET tagged_file == ReadFromPath(file) IN
    IF tagged_file[1] = "Err" THEN tagged_file
    ELSE LET tag == OrElse(FirstTag(tagged_file[2]), PrimaryTag(tagged_file[2])) IN
         IF tag = None THEN Err("FakeTag")
         ELSE IF tag[1].title = None \/ tag[1].artist = None THEN Err("FakeTag")
         ELSE Ok(tag[1])

\* NowPlaying::parse_file
ParseFile(file) ==
    LET tagged_file == ReadFromPath(file) IN
    IF tagged_file[1] = "Err" THEN tagged_file
    ELSE LET tag == OrElse(PrimaryTag(tagged_file[2]), FirstTag(tagged_file[2])) IN
         IF tag = None THEN Err("FakeTag")
         ELSE IF tag[1].title = None \/ tag[1].artist = None THEN Err("FakeTag")
         ELSE Ok(tag[1])

\* the files parse_file is applied to
ParseFileInputs ==
    {MissingFile, UnreadableFile} \cup {TaggedFile(ts) : ts \in SeqsUpTo(PlainTags, MaxTags)}

CallParseFile ==
    /\ call.f = "parse_file"
    /\ ~call.done
    /\ call' = Returned(call, ParseFile(call.arg))
    /\ UNCHANGED <<progVars, lib>>

(* ------------------------ NowPlaying: the cover ------------------------ *)
\* number of pictures a tag may carry
MaxPictures == 2

\* a lofty Picture: its type, the MIME type recorded with it (an Option) and the
\* format its bytes are really in (Picture::new_unchecked does not compare them)
Picture(pic_type, mime, data) == [pic_type |-> pic_type, mime |-> mime, data |-> data]

Pictures ==
    {Picture(t, m, d) : t \in {"CoverFront", "CoverBack"},
                        m \in {None, Some("Png"), Some("Jpeg"), Some("Gif")},
                        d \in {"Png", "Jpeg", "Gif"}}

\* SharedImage::load(default_cover_path).unwrap(): assets/default.png
DefaultCover == <<"default">>

\* the function does not return: an unwrap has panicked
Panic == <<"panic">>

\* PngImage::from_data / JpegImage::from_data followed by unwrap(): the image of
\* picture i when its bytes are in the format asked for, a panic otherwise
FromData(format, pictures, i) ==
    IF pictures[i].data = format THEN <<"image", i>> ELSE Panic

\* tag.pictures().iter().find(|picture| picture.pic_type() == PictureType::CoverFront)
FindCoverFront(pictures) ==
    IF \E i \in 1..Len(pictures) : pictures[i].pic_type = "CoverFront"
    THEN Some(CHOOSE i \in 1..Len(pictures) :
                /\ pictures[i].pic_type = "CoverFront"
                /\ \A j \in 1..(i - 1) : pictures[j].pic_type # "CoverFront")
    ELSE None

\* NowPlaying::extract_cover_image_from_tag
ExtractCoverImageFromTag(tag) ==
    IF Len(tag.pictures) = 0 THEN DefaultCover
    ELSE LET cover == FindCoverFront(tag.pictures) IN
         IF cover = None THEN DefaultCover
         ELSE LET mime == OrElse(tag.pictures[cover[1]].mime, Some("Unknown")) IN
              CASE mime = Some("Png") -> FromData("Png", tag.pictures, cover[1])
                [] mime = Some("Jpeg") -> FromData("Jpeg", tag.pictures, cover[1])
                [] OTHER -> DefaultCover

\* the tags extract_cover_image_from_tag is applied to
CoverInputs ==
    {Tag(TRUE, Some("less than lovers"), Some("Kensuke Ushio"), ps) :
        ps \in SeqsUpTo(Pictures, MaxPictures)}

CallExtractCoverImage ==
    /\ call.f = "extract_cover_image_from_tag"
    /\ ~call.done
    /\ call' = Returned(call, ExtractCoverImageFromTag(call.arg))
    /\ UNCHANGED <<progVars, lib>>

(* ------------------------- NowPlaying::new ----------------------------- *)
\* Option::unwrap_or
OptUnwrapOr(opt, default) == IF opt = None THEN default ELSE opt[1]

\* NowPlaying::extract_title_from_tag
ExtractTitleFromTag(tag) == OptUnwrapOr(tag.title, "Untitled audio")

\* NowPlaying::extract_artist_from_tag
ExtractArtistFromTag(tag) == OptUnwrapOr(tag.artist, "No artist")

\* NowPlaying::new: parse_file(path).unwrap(), then the cover, title and artist
\* widgets are built from the tag; the result is what the three widgets show
NowPlayingNew(file) ==
    LET metadata_tag == ParseFile(file) IN
    IF metadata_tag[1] = "Err" THEN Panic
    ELSE LET cover == ExtractCoverImageFromTag(metadata_tag[2]) IN
         IF cover = Panic THEN Panic
         ELSE <<"shown", ExtractTitleFromTag(metadata_tag[2]),
                ExtractArtistFromTag(metadata_tag[2]), cover>>

\* the tags of the files NowPlaying::new is applied to: with and without title
\* and artist; without picture, with a PNG front cover, with a front cover
\* recorded as PNG whose bytes are a GIF
NowPlayingTags ==
    {Tag(p, t, a, ps) : p \in BOOLEAN,
                        t \in {None, Some("less than lovers")},
                        a \in {None, Some("Kensuke Ushio")},
                        ps \in {<<>>, <<Picture("CoverFront", Some("Png"), "Png")>>,
                                <<Picture("CoverFront", Some("Png"), "Gif")>>}}

NowPlayingInputs ==
    {MissingFile, UnreadableFile} \cup
    {TaggedFile(ts) : ts \in SeqsUpTo(NowPlayingTags, MaxTags)}

CallNowPlayingNew ==
    /\ call.f = "NowPlaying::new"
    /\ ~call.done
    /\ call' = Returned(call, NowPlayingNew(call.arg))
    /\ UNCHANGED <<progVars, lib>>

(* ------------------- ProgressBar: format_duration --------------------- *)
\* longest duration, in whole seconds, of the range that is tried in full
MaxSecs == 3700

\* a Duration is counted in milliseconds; Duration::from_secs, Duration::as_secs
FromSecs(s) == s * 1000
AsSecs(duration) == duration \div 1000

\* a String is the sequence of its characters
DigitChars == <<"0", "1", "2", "3", "4", "5", "6", "7", "8", "9">>
Digit(d) == DigitChars[d + 1]

\* format!("{}", n): the decimal digits of n, as many as needed
RECURSIVE Display(_)
Display(n) == IF n < 10 THEN <<Digit(n)>> ELSE Display(n \div 10) \o <<Digit(n % 10)>>

\* mutant: no padding
Pad2None(n) == Display(n)

\* format!("{:02}", n): at least two digits, padded with zeros on the left
Pad2(n) == IF n < 10 THEN <<"0">> \o Display(n) ELSE Display(n)

\* ProgressBar::format_duration
FormatDuration(duration) ==
    LET total_secs == AsSecs(duration)
        hours == total_secs \div 3600
        rem_secs == total_secs % 3600
        minutes == rem_secs \div 60
        seconds == rem_secs % 60
    IN IF hours > 0
       THEN Display(hours) \o <<":">> \o Pad2(minutes) \o <<":">> \o Pad2(seconds)
       ELSE Display(minutes) \o <<":">> \o Pad2(seconds)

\* durations of ten hours and more
LongDurations == {FromSecs(36000), FromSecs(86399), FromSecs(360000)}

\* the durations format_duration is applied to: every whole second up to MaxSecs,
\* alone and with 999 ms more, and the long ones
DurationInputs ==
    {FromSecs(s) + ms : s \in 0..MaxSecs, ms \in {0, 999}} \cup LongDurations

CallFormatDuration ==
    /\ call.f = "format_duration"
    /\ ~call.done
    /\ call' = Returned(call, FormatDuration(call.arg))
    /\ UNCHANGED <<progVars, lib>>

\* reading a timestamp back: its fields between the colons, and the number a
\* field of digits stands for
Colons(str) == {i \in 1..Len(str) : str[i] = ":"}

RECURSIVE Fields(_)
Fields(str) ==
    IF Colons(str) = {} THEN <<str>>
    ELSE LET i == CHOOSE c \in Colons(str) : \A d \in Colons(str) : c <= d IN
         <<SubSeq(str, 1, i - 1)>> \o Fields(SubSeq(str, i + 1, Len(str)))

DigitValue(c) == CHOOSE d \in 0..9 : Digit(d) = c

RECURSIVE Number(_)
Number(field) ==
    IF field = <<>> THEN 0
    ELSE Number(SubSeq(field, 1, Len(field) - 1)) * 10 + DigitValue(field[Len(field)])

\* a field of digits without padding: one digit, or no zero in front
Unpadded(field) == Len(field) = 1 \/ (Len(field) > 1 /\ field[1] # "0")

(* ------------------------ ProgressBar: knob_x -------------------------- *)
\* largest maximum of the progress bar that is tried
MaxMaximum == 100

\* the part of an fltk Progress that knob_x reads; value and maximum are whole
\* numbers (the position and the length of the track in milliseconds, or the
\* percentages of the tests)
Progress(x, w, value, maximum) == [x |-> x, w |-> w, value |-> value, maximum |-> maximum]

\* `as i32` of the quotient n / d: the fraction is cut off, towards zero
TruncDiv(n, d) == IF n >= 0 THEN n \div d ELSE -((-n) \div d)

\* mutant: the offset is rounded to the nearest pixel
KnobXRounded(progress_bar) ==
    LET progress == <<progress_bar.value, progress_bar.maximum>>
        progress_bar_width == progress_bar.w
        progress_offset ==
            TruncDiv(2 * progress[1] * progress_bar_width + progress[2], 2 * progress[2])
    IN progress_bar.x + progress_offset

\* ProgressBar::knob_x. `progress` is the fraction value / maximum, kept as the
\* pair of its numerator and denominator; the product with the width is cut to
\* an integer. (With whole numbers of this size the f64 quotient and product have
\* the integer part of the exact fraction.)
KnobX(progress_bar) ==
    LET progress == <<progress_bar.value, progress_bar.maximum>>
        progress_bar_width == progress_bar.w
        progress_offset == TruncDiv(progress[1] * progress_bar_width, progress[2])
    IN progress_bar.x + progress_offset

\* x of the bar: the left edge of the window, and the x of ProgressBar::default()
KnobOrigins == {0, 75}

\* the bars knob_x is applied to: width WIDTH, every maximum up to MaxMaximum and
\* every value from 0 to the maximum
KnobInputs ==
    UNION {{Progress(x, WIDTH, v, m) : x \in KnobOrigins, v \in 0..m} : m \in 1..MaxMaximum}

CallKnobX ==
    /\ call.f = "knob_x"
    /\ ~call.done
    /\ call' = Returned(call, KnobX(call.arg))
    /\ UNCHANGED <<progVars, lib>>

(* ------------- AudioHandler: fast_forward, then rewind ---------------- *)
\* the sink's position after try_seek(target) has returned res: the target after
\* Ok, the position it had after Err
PosAfterSeek(p, target, res) == IF res = "Ok" THEN target ELSE p

\* fast_forward(d) and then rewind(d) on a sink at p that does not play in
\* between: each reads get_pos, computes its target and seeks; ff and rw are the
\* results of the two try_seek calls
FastForwardThenRewind(p, d, ff, rw) ==
    LET after_ff == PosAfterSeek(p, FastForwardTarget(p, d), ff)
    IN PosAfterSeek(after_ff, RewindTarget(after_ff, d), rw)

\* the pairs of commands that are tried: every position of the track, every
\* distance up to the largest position, every result the two seeks can have
SeekPairInputs ==
    {a \in [p : 0..AudioLength, d : 0..MaxPos, ff : {"Ok", "Err"}, rw : {"Ok", "Err"}] :
        /\ a.ff \in TrySeekOutcomes(FastForwardTarget(a.p, a.d))
        /\ a.rw \in TrySeekOutcomes(
                        RewindTarget(PosAfterSeek(a.p, FastForwardTarget(a.p, a.d), a.ff), a.d))}

CallFastForwardThenRewind ==
    /\ call.f = "fast_forward; rewind"
    /\ ~call.done
    /\ call' = Returned(call, FastForwardThenRewind(call.arg.p, call.arg.d,
                                                  call.arg.ff, call.arg.rw))
    /\ UNCHANGED <<progVars, lib>>

(* ------------------ the Rewind targets of the variants ----------------- *)
\* mutant: the distance between position and duration, whichever is larger
RewindTargetBranchAbs(p, d) == IF p < d THEN d - p ELSE p - d

\* app.rs, Message::Rewind: try_seek(Duration::from_secs(0)) when
\* current_pos < duration, try_seek(current_pos - duration) otherwise
RewindTargetBranch(p, d) == IF p < d THEN 0 ELSE p - d

\* the positions and durations the two forms are compared on: every position a
\* seek can reach, every duration up to one step more
RewindInputs == [p : 0..MaxPos, d : 0..(MaxPos + 1)]

\* both forms on the same position and duration: the target of app.rs, the
\* target of app/mod.rs and app/audio_handler.rs
CallRewindTargets ==
    /\ call.f = "rewind targets"
    /\ ~call.done
    /\ call' = Returned(call, <<RewindTargetBranch(call.arg.p, call.arg.d),
                                RewindTarget(call.arg.p, call.arg.d)>>)
    /\ UNCHANGED <<progVars, lib>>

\* one call is tried, of any of the functions on any of its inputs
FnInit ==
    /\ Constructed
    /\ lib = LibNew
    /\ \/ \E file \in ParseFileInputs : call = Pending("parse_file", file)
       \/ \E tag \in CoverInputs : call = Pending("extract_cover_image_from_tag", tag)
       \/ \E file \in NowPlayingInputs : call = Pending("NowPlaying::new", file)
       \/ \E d \in DurationInputs : call = Pending("format_duration", d)
       \/ \E bar \in KnobInputs : call = Pending("knob_x", bar)
       \/ \E a \in SeekPairInputs : call = Pending("fast_forward; rewind", a)
       \/ \E a \in RewindInputs : call = Pending("rewind targets", a)

FnNext ==
    \/ CallParseFile
    \/ CallExtractCoverImage
    \/ CallNowPlayingNew
    \/ CallFormatDuration
    \/ CallKnobX
    \/ CallFastForwardThenRewind
    \/ CallRewindTargets

FnSpec == FnInit /\ [][FnNext]_vars

(* ============================== claims ================================= *)
\* the OutputStream is alive: held by the worker's local `stream_handle`, or by the
\* shared slot it is moved into
StreamAlive == streamLocal \/ stream = "Some"

\* the positions on their way to the display, oldest first: the one the progress
\* bar holds, the samples waiting on the channel, the sample the reporter has read
\* and not yet sent, and the sink's position (the next sample to be read)
PosChain ==
    <<currentAudioPos>> \o posQueue \o
    (IF reporterPc = "send" THEN <<sample>> ELSE <<>>) \o <<pos>>

NonDecreasing(seq) == \A i \in 1..(Len(seq) - 1) : seq[i] <= seq[i + 1]

\* a step of the worker inside fast_forward / rewind: the try_seek or the send of
\* its target
SeekHandlerStep == workerPc \in {"seek", "send"} /\ workerPc' # workerPc

\* the play/pause history still to be seen, oldest first: the state of the sink
\* (the effect of the last Play / Pause applied), the Play / Pause the worker has
\* dequeued and not yet applied, and the Play / Pause waiting in the queue
RECURSIVE PlayPauseKinds(_)
PlayPauseKinds(q) ==
    IF q = <<>> THEN <<>>
    ELSE (IF Head(q).kind \in {"Play", "Pause"} THEN <<Head(q).kind>> ELSE <<>>)
         \o PlayPauseKinds(Tail(q))

PlayPauseChain ==
    <<IF paused THEN "Pause" ELSE "Play">> \o
    PlayPauseKinds((IF workerPc = "lock" THEN <<cur>> ELSE <<>>) \o cmdQueue)

Alternates(seq) == \A i \in 1..(Len(seq) - 1) : seq[i] # seq[i + 1]

\* the positions of the worker inside its command loop
WorkerLoopPcs == {"recv", "lock", "seek", "send", "unlock"}

\* the worker is inside the with_sink closure of a FastForward or Rewind
InSeekHandler == workerPc \in {"seek", "send"}
\* the worker is inside with_sink, whatever the command
InHandler == workerPc \in {"seek", "send", "unlock"}

\* C1: the commands the worker has handled are, at every moment, a prefix of the
\* commands in the order they were sent: the i-th command handled is the i-th
\* command sent (no reordering, no skipping, no command handled twice), and the
\* command in hand is the one sent right after the last one handled.
C1_HandledIsPrefixOfSent ==
    /\ Len(handled) <= nSent
    /\ \A i \in 1..Len(handled) : handled[i] = i
    /\ cur # NoMsg => cur.id = Len(handled) + 1
    /\ \A i \in 1..Len(cmdQueue) :
         cmdQueue[i].id = Len(handled) + (IF cur = NoMsg THEN 0 ELSE 1) + i

\* C1 witness: two commands were sent and both were handled
C1_Witness == handled = <<1, 2>>

\* C2: the worker handles one command at a time (a command is dequeued only when
\* no command is in hand), and from the position read to the end of the handler
\* the worker holds the sink lock, so that the reporter is not inside its own
\* with_sink closure and cannot read the sink in between.
C2_OneCommandAtATime ==
    /\ (workerPc = "recv") => (cur = NoMsg)
    /\ InHandler => (cur # NoMsg /\ sinkLock = "worker" /\ reporterPc # "sleep")
    /\ (reporterPc = "sleep") => (sinkLock = "reporter" /\ ~InHandler)

\* C2 witness: the worker is between the position read and the seek while the
\* reporter waits for the sink lock and another command waits in the queue
C2_Witness ==
    /\ workerPc = "seek"
    /\ reporterPc = "lock"
    /\ cmdQueue # <<>>

\* C3: the seek target of a Rewind(d) handled at position p is p - d when d <= p
\* and 0 when d > p; it is never negative.
C3_RewindTarget ==
    (InHandler /\ cur.kind = "Rewind") =>
        /\ targetPos = (IF cur.d <= currentPos THEN currentPos - cur.d ELSE 0)
        /\ targetPos >= 0

\* C3 witness: a Rewind by more than the (non-zero) current position is about to seek
C3_Witness ==
    /\ workerPc = "seek"
    /\ cur.kind = "Rewind"
    /\ currentPos > 0
    /\ cur.d > currentPos
    /\ targetPos = 0

\* C4: handling FastForward(d) at position p issues exactly one seek, and its
\* target is the absolute position p + d, with p the position read while handling
\* the command: a successful seek leaves the sink at p + d.
C4_FastForwardSeek ==
    /\ [](( InHandler /\ cur.kind = "FastForward") =>
            /\ targetPos = currentPos + cur.d
            /\ seekCount = (IF workerPc = "seek" THEN 0 ELSE 1))
    /\ [][(workerPc = "seek" /\ cur.kind = "FastForward" /\ workerPc' # "seek") =>
            /\ seekCount' = 1
            /\ workerPc' = "send"
            /\ seekResult' = "Ok" => pos' = currentPos + cur.d]_vars

\* C4 witness: a FastForward read a non-zero position and its one seek succeeded
C4_Witness ==
    /\ workerPc = "send"
    /\ cur.kind = "FastForward"
    /\ currentPos > 0
    /\ cur.d > 0
    /\ seekResult = "Ok"
    /\ seekCount = 1

\* C5: when the seek of a FastForward or Rewind fails, that step leaves the
\* sink's play/pause state and position as they were, the worker logs the error
\* and goes on to the position send (no second seek, no panic), and until the
\* handler returns the only change to the sink is playback itself; the worker
\* thread panics only when the output device could not be opened.
C5_SeekFailureAbsorbed ==
    /\ [](seekResult = "Err" => (workerPc \in {"send", "unlock"} /\ seekCount = 1))
    /\ [](workerPc = "panicked" => sink = "None")
    /\ [][(workerPc = "seek" /\ seekResult' = "Err") =>
            /\ pos' = pos
            /\ paused' = paused
            /\ workerPc' = "send"
            /\ workerLog' = workerLog + 1]_vars
    /\ [][(seekResult = "Err") =>
            /\ paused' = paused
            /\ pos' = pos \/ (pos' = pos + 1 /\ workerPc' = workerPc)
            /\ workerPc' \in {"send", "unlock", "recv"}]_vars

\* C5, under fair scheduling (FairSpec): after a failed seek the handler returns
\* and the worker is back at its receive, ready for the next command.
C5_WorkerGoesOn ==
    (seekResult = "Err") ~> (workerPc = "recv" /\ cur = NoMsg)

\* C5 witness: a seek has failed, the handler is about to return and the next
\* command is waiting in the queue
C5_Witness ==
    /\ seekResult = "Err"
    /\ workerPc = "unlock"
    /\ cmdQueue # <<>>

\* C6: the position the progress bar holds and shows is within [0, audio_length]
\* in every state, whatever samples update() has drained.
C6_ShownPositionInRange ==
    /\ 0 <= currentAudioPos
    /\ currentAudioPos <= AudioLength
    /\ shownClamped => currentAudioPos = AudioLength

\* C6 witness: update() kept a sample that lay beyond the end of the track
C6_Witness == shownClamped /\ currentAudioPos = AudioLength

\* C7: the reporter is never sleeping, and never sending on the position channel,
\* while it holds the sink lock.
C7_ReporterLockOnlyForRead ==
    ~(sinkLock = "reporter" /\ reporterPc \in {"sleep", "send"})

\* C8: the worker never holds the sink lock when it calls try_seek or when it
\* sends the target on the position channel.
C8_WorkerLockNotAcrossSeekOrSend ==
    InSeekHandler => sinkLock # "worker"

\* C9: the reporter leaves its loop only after the display's receiver was dropped
\* and never by a panic; once the receiver is dropped it reads at most one more
\* sample, its next send fails and ends the loop, and a reporter that has ended
\* stays ended.
C9_ReporterStopsWhenDisplayDropped ==
    /\ [](reporterPc = "done" => ~posRxAlive)
    /\ [](reporterPc # "panicked")
    /\ [](samplesAfterDrop <= 1)
    /\ [][(reporterPc = "send" /\ ~posRxAlive /\ reporterPc' # reporterPc) =>
            (reporterPc' = "done" /\ posQueue' = posQueue)]_vars
    /\ [][(reporterPc = "done") => (reporterPc' = "done" /\ sample' = sample)]_vars

\* C9, under fair scheduling (FairSpec): once the display's receiver is dropped, a
\* running reporter does reach the end of its loop.
C9_ReporterEventuallyStops ==
    (~posRxAlive /\ reporterPc # "unspawned") ~> (reporterPc = "done")

\* C9 witness: the reporter has ended after reading one sample that it could not deliver
C9_Witness == reporterPc = "done" /\ samplesAfterDrop = 1

C11_SendNeverBlocks ==
    CanClick =>
        /\ ENABLED ClickPlayPause
        /\ ENABLED ClickFastForward
        /\ ENABLED ClickRewind
        /\ posRxAlive => ENABLED ClickProgressBar

\* C11 witness: every click of the run was sent, and queued, before the worker had
\* opened the output device
C11_Witness ==
    /\ workerPc = "open"
    /\ Len(cmdQueue) = MaxClicks
    /\ nSent = MaxClicks

C13_PlayingBeforeAnyCommand ==
    /\ (sink = "Some" /\ cur = NoMsg /\ handled = <<>>) => ~paused
    /\ paused => (cur.kind = "Pause" \/ handled # <<>>)
    /\ (nSent = 0 /\ nFailed = 0) =>
          /\ btnLabel = PAUSE_BUTTON
          /\ HandlePlayPauseClick(btnLabel)[2] = "Pause"
    /\ (sink = "Some" /\ handled = <<>> /\ cur = NoMsg /\ pos < AudioLength) =>
          ENABLED Tick

\* C13 witness: the worker waits for its first command, nothing has been clicked,
\* and the audio has already advanced
C13_Witness ==
    /\ workerPc = "recv"
    /\ nSent = 0
    /\ nFailed = 0
    /\ handled = <<>>
    /\ ~paused
    /\ pos > 0

\* C14: only the worker thread changes the sink. The paused flag changes only in
\* the worker's Play / Pause handler (or when the worker creates the sink); the
\* position changes only by the worker's successful seek or by playback itself;
\* a step of the position reporter and a step of the UI thread leave the sink as
\* it is (the reporter reads, the UI sends).
C14_OnlyWorkerChangesSink ==
    [][/\ (paused' # paused) =>
             \/ (workerPc = "lock" /\ workerPc' = "unlock")
             \/ (workerPc = "store_sink" /\ workerPc' = "store_stream")
       /\ (pos' # pos) =>
             \/ (workerPc = "seek" /\ workerPc' = "send" /\ pos' = targetPos)
             \/ /\ ~paused
                /\ pos' = pos + 1
                /\ UNCHANGED <<workerPc, reporterPc, uiVars, cmdQueue, posQueue>>
       /\ (reporterPc' # reporterPc /\ workerPc' = workerPc) => UNCHANGED sinkVars
       /\ (uiVars' # uiVars \/ (cmdQueue' # cmdQueue /\ workerPc' = workerPc)) =>
             UNCHANGED sinkVars]_vars

\* C14 witness: the UI has sent one command, the worker has handled it (the sink is
\* paused) and the reporter has just read the position
C14_Witness ==
    /\ nSent = 1
    /\ handled = <<1>>
    /\ paused
    /\ pos > 0
    /\ reporterPc = "send"
    /\ sample = pos

\* C15: the reporter exists, and a command has been dequeued, only when the shared
\* sink is an initialized sink; so with_sink never finds None: neither the
\* reporter nor the worker's handlers ever panic, and the only way the worker
\* fails is at the opening of the device, before a sink or a reporter exists and
\* before any command is taken.
C15_SinkInitializedBeforeUse ==
    /\ (reporterPc # "unspawned") => sink = "Some"
    /\ (workerPc \in {"recv", "lock", "seek", "send", "unlock"}) => sink = "Some"
    /\ (cur # NoMsg \/ handled # <<>>) => sink = "Some"
    /\ (sinkLock # "free") => sink = "Some"
    /\ reporterPc # "panicked"
    /\ (workerPc = "panicked") =>
          (sink = "None" /\ reporterPc = "unspawned" /\ cur = NoMsg /\ handled = <<>>)

\* C15 witness: all the clicks of the run were sent, the worker is inside with_sink
\* for the first of them, and the reporter has been through with_sink as well
C15_Witness ==
    /\ nSent = MaxClicks
    /\ InHandler
    /\ cur.id = 1
    /\ sinkLock = "worker"
    /\ reporterPc = "send"
    /\ sink = "Some"

\* C16: once the worker is in its command loop it stays there: no command, no
\* failed seek and no failed send on the position channel takes it out of the loop
\* or makes it panic. (The worker can fail only earlier, when it opens the output
\* device, before a sink exists and before it has taken any command.)
C16_WorkerStaysInLoop ==
    /\ []((workerPc = "panicked") => (sinksCreated = 0 /\ workerLog = 0 /\ seekCount = 0))
    /\ [][(workerPc \in WorkerLoopPcs) => (workerPc' \in WorkerLoopPcs)]_vars
    /\ [][(handled # <<>>) => (workerPc' \in WorkerLoopPcs)]_vars

\* C16 witness: while handling its second command the worker met a failed seek and
\* a failed send of the position, and it is about to return to the receive
C16_Witness ==
    /\ workerPc = "unlock"
    /\ handled = <<1>>
    /\ seekResult = "Err"
    /\ ~posRxAlive
    /\ workerLog = 2

\* C17: with an empty queue the worker is blocked in its receive: it has no step
\* of its own, so it changes nothing in the sink, holds no lock and sends no
\* sample, and the empty queue does not make it fail; as soon as a command is
\* queued the receive can return.
C17_BlockedReceive ==
    /\ []((workerPc = "recv" /\ cmdQueue = <<>>) =>
            (~ENABLED WorkerRecv /\ sinkLock # "worker" /\ cur = NoMsg))
    /\ []((workerPc = "recv" /\ cmdQueue # <<>> /\ cmdRxAlive) => ENABLED WorkerRecv)
    /\ [][(workerPc = "recv" /\ cmdQueue = <<>>) =>
            /\ UNCHANGED workerVars
            /\ paused' = paused
            /\ sinkLock' # "worker"
            /\ (pos' # pos) => (pos' = pos + 1 /\ ~paused)
            /\ (Len(posQueue') > Len(posQueue)) => reporterPc = "send"]_vars

\* C17 witness: the worker is back in the receive after a first command, the queue
\* is empty and a click can still come
C17_Witness ==
    /\ workerPc = "recv"
    /\ cmdQueue = <<>>
    /\ handled = <<1>>
    /\ nSent = 1
    /\ CanClick

\* C18: a failure to start (output device, input file, decoder) ends the whole
\* process: in no reachable state is the UI running while the worker has failed to
\* initialize.
C18_StartFailureIsFatal == ~(workerPc = "panicked" /\ uiPc = "running")

\* C19: a running instance has at most one output stream and at most one sink. The
\* worker creates each once; each shared slot goes from None to Some once, and a
\* filled slot is never cleared and never given another sink or stream.
C19_OneStreamOneSink ==
    /\ [](streamsCreated <= 1 /\ sinksCreated <= 1)
    /\ []((sink = "Some") => (sinksCreated = 1))
    /\ []((stream = "Some") => (streamsCreated = 1))
    /\ [][(sink = "Some") => (sink' = "Some" /\ sinksCreated' = sinksCreated)]_vars
    /\ [][(stream = "Some") => (stream' = "Some" /\ streamsCreated' = streamsCreated)]_vars
    /\ [][(sink' # sink) => (workerPc = "store_sink" /\ sinksCreated' = 1)]_vars
    /\ [][(stream' # stream) => (workerPc = "store_stream" /\ streamsCreated = 1)]_vars

\* C19 witness: every command of the run has been handled, and the one stream and
\* the one sink of the start are still in their slots
C19_Witness ==
    /\ Len(handled) = MaxClicks
    /\ sink = "Some"
    /\ stream = "Some"
    /\ sinksCreated = 1
    /\ streamsCreated = 1

\* C20: the output stream outlives the sink bound to it. Whenever a sink exists the
\* stream it plays on is alive, and whenever the sink can be used (the reporter is
\* running, the worker is in its loop, or one of them is inside with_sink) the
\* stream is kept by the shared slot; a live stream is never dropped.
C20_StreamOutlivesSink ==
    /\ []((sink = "Some" \/ sinksCreated > 0) => StreamAlive)
    /\ []((reporterPc # "unspawned" \/ workerPc \in WorkerLoopPcs \/ sinkLock # "free") =>
            stream = "Some")
    /\ [][StreamAlive => StreamAlive']_vars

\* C20 witness: the reporter is inside with_sink after the worker has handled a
\* command, and the stream is in its slot
C20_Witness ==
    /\ sinkLock = "reporter"
    /\ handled # <<>>
    /\ sink = "Some"
    /\ stream = "Some"
    /\ ~streamLocal

\* C21: without a seek the samples delivered to the display never decrease. While
\* no command has been sent the positions on their way to the display are in
\* non-decreasing order, and a step that is not part of the handling of
\* FastForward / Rewind keeps them so: each sample is at least the one before it.
C21_SamplesMonotoneWithoutSeek ==
    /\ []((nSent = 0) => NonDecreasing(PosChain))
    /\ [][(NonDecreasing(PosChain) /\ ~SeekHandlerStep) => NonDecreasing(PosChain')]_vars

\* C21 witness: no command was ever sent, the display holds an earlier sample and
\* two later samples of the advancing playback wait on the channel
C21_Witness ==
    /\ nSent = 0
    /\ nFailed = 0
    /\ Len(posQueue) = 2
    /\ currentAudioPos < posQueue[1]
    /\ posQueue[1] < posQueue[2]

\* C22: a click on the play/pause button maps the pause glyph to (play glyph,
\* Pause) and the play glyph to (pause glyph, Play). Hence the Play / Pause commands
\* strictly alternate, beginning with Pause on the sink that starts playing, and
\* the label shown is the opposite of the last command sent.
C22_PlayPauseAlternates ==
    /\ PLAY_BUTTON # PAUSE_BUTTON
    /\ HandlePlayPauseClick(PAUSE_BUTTON) = <<PLAY_BUTTON, "Pause">>
    /\ HandlePlayPauseClick(PLAY_BUTTON) = <<PAUSE_BUTTON, "Play">>
    /\ btnLabel \in {PLAY_BUTTON, PAUSE_BUTTON}
    /\ Alternates(PlayPauseChain)
    /\ cmdRxAlive =>
          (btnLabel = PLAY_BUTTON <=> PlayPauseChain[Len(PlayPauseChain)] = "Pause")

\* C22 witness: two clicks on the button have queued Pause and then Play, and the
\* button shows the pause glyph again
C22_Witness ==
    /\ Len(cmdQueue) = 2
    /\ cmdQueue[1].kind = "Pause"
    /\ cmdQueue[2].kind = "Play"
    /\ btnLabel = PAUSE_BUTTON

C23_FallbackStringsShown ==
    (/\ call.f = "NowPlaying::new"
     /\ call.done
     /\ call.arg.state = "tagged"
     /\ Len(call.arg.tags) = 1
     /\ call.arg.tags[1].pictures = <<>>
     /\ (call.arg.tags[1].title = None \/ call.arg.tags[1].artist = None)) =>
        /\ call.out[1] = "shown"
        /\ (call.arg.tags[1].title = None) => call.out[2] = "Untitled audio"
        /\ (call.arg.tags[1].artist = None) => call.out[3] = "No artist"

\* C25: extract_cover_image_from_tag returns the image of the first CoverFront
\* picture when the MIME type recorded with it is PNG or JPEG, whatever the other
\* pictures are, and the default cover when there is no picture, no front cover,
\* no MIME type, or another MIME type.
C25_CoverImage ==
    (call.f = "extract_cover_image_from_tag" /\ call.done) =>
        LET ps == call.arg.pictures
            fronts == {i \in 1..Len(ps) : ps[i].pic_type = "CoverFront"}
            first == CHOOSE i \in fronts : \A j \in fronts : i <= j
        IN
        IF fronts # {} /\ ps[first].mime \in {Some("Png"), Some("Jpeg")}
        THEN call.out = <<"image", first>>
        ELSE call.out = DefaultCover

\* C25, for the front covers that decode: when the bytes of the first CoverFront
\* picture are in the format recorded with it, the answer is the one C25 states.
C25_CoverImageWhenDecodable ==
    (call.f = "extract_cover_image_from_tag" /\ call.done) =>
        LET ps == call.arg.pictures
            fronts == {i \in 1..Len(ps) : ps[i].pic_type = "CoverFront"}
            first == CHOOSE i \in fronts : \A j \in fronts : i <= j
        IN
        IF fronts # {} /\ ps[first].mime \in {Some("Png"), Some("Jpeg")}
        THEN (ps[first].mime = Some(ps[first].data)) => call.out = <<"image", first>>
        ELSE call.out = DefaultCover

C27_KnobX ==
    /\ KnobX(Progress(75, 250, 0, 100)) = 75
    /\ KnobX(Progress(75, 250, 25, 100)) = 137
    /\ KnobX(Progress(75, 250, 50, 100)) = 200
    /\ KnobX(Progress(75, 250, 75, 100)) = 262
    /\ KnobX(Progress(75, 250, 100, 100)) = 325
    /\ (call.f = "knob_x" /\ call.done) =>
          LET bar == call.arg
              k == call.out - bar.x
          IN /\ k * bar.maximum <= bar.value * bar.w
             /\ bar.value * bar.w < (k + 1) * bar.maximum
             /\ bar.x <= call.out
             /\ call.out <= bar.x + bar.w
             /\ (bar.value = 0) => call.out = bar.x
             /\ (bar.value = bar.maximum) => call.out = bar.x + bar.w

\* C27 witness: a value that does not fall on a whole pixel: 1 of 3 on the bar of
\* the default layout is 83 pixels (83.33..) from its origin
C27_Witness ==
    /\ call.f = "knob_x"
    /\ call.done
    /\ call.arg = Progress(75, WIDTH, 1, 3)
    /\ call.out = 75 + 83

\* C28: a FastForward or Rewind whose seek failed puts no sample of the rejected
\* target on the position channel: when the target differs from the position of
\* the sink, the step that ends the handling of the failed seek leaves the channel
\* as it was.
C28_FailedSeekNotShown ==
    [][(/\ workerPc = "send"
        /\ workerPc' # "send"
        /\ seekResult = "Err"
        /\ targetPos # pos) => posQueue' = posQueue]_vars

\* C29: when the display's end of the position channel is gone, the send of the
\* seek target fails as a logged error and nothing more: the seek was made before
\* the send, the failed send changes neither the sink nor the channel, and the
\* worker goes on to the end of the handler, in its loop.
C29_PosSendFailureLogged ==
    /\ [](workerPc = "send" => (seekCount = 1 /\ seekResult \in {"Ok", "Err"}))
    /\ []((~posRxAlive /\ sinksCreated = 1) => workerPc # "panicked")
    /\ [][(workerPc = "seek" /\ workerPc' # "seek") =>
            /\ workerPc' = "send"
            /\ (seekResult' = "Ok") => pos' = targetPos]_vars
    /\ [][(workerPc = "send" /\ workerPc' # "send" /\ ~posRxAlive) =>
            /\ workerPc' = "unlock"
            /\ workerLog' = workerLog + 1
            /\ UNCHANGED <<sinkVars, posQueue, cmdQueue, handled>>]_vars

\* C29 witness: the display is gone; the worker handled a first command, and for
\* the second its seek succeeded, the send of the target failed and was logged
C29_Witness ==
    /\ ~posRxAlive
    /\ handled = <<1>>
    /\ workerPc = "unlock"
    /\ cur.kind \in {"FastForward", "Rewind"}
    /\ seekResult = "Ok"
    /\ workerLog = 1

\* C30: update never waits; it takes every sample queued on the position channel
\* and keeps the newest: afterwards the channel is empty and the stored position
\* is the last sample, clamped to [0, audio_length]; with no sample queued the
\* stored position stays as it was.
C30_UpdateDrainsAll ==
    /\ []((uiPc = "running" /\ posRxAlive) => ENABLED Update)
    /\ [](Drain(<<>>, currentAudioPos) = currentAudioPos)
    /\ [][(currentAudioPos' # currentAudioPos \/ (posQueue # <<>> /\ posQueue' = <<>>)) =>
            \/ ~posRxAlive'
            \/ /\ posQueue # <<>>
               /\ posQueue' = <<>>
               /\ currentAudioPos' =
                      Min(Max(posQueue[Len(posQueue)], 0), AudioLength)]_vars

\* C30 witness: with no command ever sent, update has emptied the channel and
\* holds the newest sample, the position at the end of the track
C30_Witness ==
    /\ posQueue = <<>>
    /\ posRxAlive
    /\ currentAudioPos = 2
    /\ pos = 2
    /\ reporterPc = "lock"
    /\ nSent = 0

\* the points a click can ask for: audio_length * r / width for the offsets r of
\* the bar, 0 to width
ClickTargets == {(AudioLength * r) \div WIDTH : r \in 0..WIDTH}

C32_ClickSeeksToClickedPoint ==
    (/\ InSeekHandler
     /\ AudioLength # SEEK_DURATION
     /\ cur.d = AudioLength) =>
        targetPos = (IF cur.kind = "FastForward"
                     THEN PositionToSeek(WIDTH)
                     ELSE PositionToSeek(0))

\* C33: samples reach the display in the order the positions were read: once the
\* worker has handled a seek and sent its target, no sample read before that seek
\* is delivered after the target. Stated for the worker still inside the handler:
\* it has held the sink lock since before its get_pos, so a sample the reporter
\* holds at that time was read before the seek, and the target has been sent when
\* the worker is about to return; the reporter then must not deliver that sample.
C33_SamplesInReadOrder ==
    [][(/\ reporterPc = "send"
        /\ posRxAlive
        /\ reporterPc' = "lock"
        /\ posQueue' = Append(posQueue, sample)) =>
            ~(workerPc = "unlock" /\ cur.kind \in {"FastForward", "Rewind"})]_vars

\* C34: every command sent while the worker is alive is eventually handled,
\* although the reporter takes the sink lock again and again: a worker that has
\* received a command and waits for the sink lock gets the lock.
C34_CommandGetsTheLock ==
    (workerPc = "lock") ~> (workerPc # "lock")

\* C34, were the mutex to hand the lock to a thread that keeps asking for it
\* (FairSpec): the command in hand is handled.
C34_CommandHandledUnderHandOver ==
    (workerPc = "lock" /\ sink = "Some") ~> (workerPc = "unlock")

\* C35: the worker, the reporter and the UI thread never deadlock. The sink lock
\* is held only by a thread inside with_sink whose next step can be taken (the
\* worker's send of the target at most waits for update() to take samples off the
\* channel, never for the lock or for the reporter), a free lock can be taken by
\* whoever asks for it, the worker's blocking receive wakes up as soon as a
\* command is queued, and the UI thread, which takes no lock and whose sends do
\* not wait (C11), keeps running.
C35_NoDeadlock ==
    /\ sinkLock = "worker" =>
            /\ workerPc \in {"seek", "send", "unlock"}
            /\ workerPc = "seek" => ENABLED WorkerSeek
            /\ workerPc = "send" => (ENABLED WorkerSendPos \/ ENABLED Update)
            /\ workerPc = "unlock" => ENABLED WorkerUnlock
    /\ sinkLock = "reporter" => (reporterPc = "sleep" /\ ENABLED ReporterRead)
    /\ (sinkLock = "free" /\ workerPc = "lock") => ENABLED WorkerLock
    /\ (sinkLock = "free" /\ reporterPc = "lock") => ENABLED ReporterLock
    /\ reporterPc = "send" => (ENABLED ReporterSend \/ ENABLED Update)
    /\ (workerPc = "recv" /\ cmdQueue # <<>> /\ cmdRxAlive) => ENABLED WorkerRecv
    /\ uiPc = "running"

\* C35 witness: the reporter waits for the sink lock while the worker, inside
\* fast_forward / rewind, holds it and is about to send on the position channel,
\* and another command is already queued
C35_Witness ==
    /\ sinkLock = "worker"
    /\ workerPc = "send"
    /\ reporterPc = "lock"
    /\ posRxAlive
    /\ cmdQueue # <<>>

\* C36: once the queue is drained the play/pause button agrees with the sink:
\* whenever the worker is alive and has handled every command sent so far, the
\* sink is paused exactly when the button shows the play icon and playing
\* exactly when it shows the pause icon.
C36_ButtonAgreesWithSink ==
    (/\ workerPc = "recv"
     /\ sink = "Some"
     /\ cmdQueue = <<>>
     /\ Len(handled) = nSent) =>
        /\ paused <=> btnLabel = PLAY_BUTTON
        /\ ~paused <=> btnLabel = PAUSE_BUTTON

\* C36 witness: a Pause and nothing else has been sent and handled; the sink is
\* paused and the button offers to play
C36_Witness ==
    /\ workerPc = "recv"
    /\ cmdQueue = <<>>
    /\ nSent = 1
    /\ handled = <<1>>
    /\ paused
    /\ btnLabel = PLAY_BUTTON

\* C37: with no playback in between, FastForward(d) followed by Rewind(d) leaves
\* the sink at the position it had before the two commands, for every starting
\* position p and every d, also when p + d lies beyond the end of the track.
C37_RewindUndoesFastForward ==
    (call.f = "fast_forward; rewind" /\ call.done) => call.out = call.arg.p

\* C37, for the pairs whose two seeks both succeed: the position is restored.
C37_RewindUndoesFastForwardWhenBothSeek ==
    (/\ call.f = "fast_forward; rewind"
     /\ call.done
     /\ call.arg.ff = "Ok"
     /\ call.arg.rw = "Ok") => call.out = call.arg.p

\* C38: the two Rewind implementations agree: for every position p and duration
\* d the branch form of app.rs (0 when p < d, p - d otherwise) and the
\* checked_sub form of app/mod.rs and app/audio_handler.rs (p - d, 0 when the
\* subtraction would underflow) seek to the same target, which is never negative.
C38_RewindFormsAgree ==
    (call.f = "rewind targets" /\ call.done) =>
        /\ call.out[1] = call.out[2]
        /\ call.out[1] >= 0
        /\ call.arg.p < call.arg.d => call.out[1] = 0
        /\ call.arg.p >= call.arg.d => call.out[1] + call.arg.d = call.arg.p

\* C38 witness: the duration is larger than the position, so the subtraction
\* would underflow; both forms have given 0
C38_Witness ==
    /\ call.f = "rewind targets"
    /\ call.done
    /\ call.arg.p = 1
    /\ call.arg.d = 2
    /\ call.out = <<0, 0>>

\* C39: in the variant of lib.rs a click on the play/pause button while the track
\* is still playing is served before the track ends: the callback never panics,
\* also when the click comes before the audio thread has stored the sink, and
\* when it waits for the mutex the thread that holds it gives it back without
\* the track having to end first.
C39_ClickServedWhilePlaying ==
    /\ lib.uiPc # "panicked"
    /\ (lib.uiPc = "lock" /\ lib.guard = "audio") => ENABLED LibSleepUntilEnd

\* C39, the two halves on their own
C39_CallbackNeverPanics == lib.uiPc # "panicked"
C39_CallbackNeverWaitsForTheEnd ==
    (lib.uiPc = "lock" /\ lib.guard = "audio") => ENABLED LibSleepUntilEnd

\* C39: no click is served while the track plays from the stored sink; every
\* toggle happens after the end of the track
C39_ToggleOnlyAfterTheEnd ==
    lib.uiPc = "toggle" => (lib.audioPc = "done" /\ lib.pos = LibAudioSecs)

====
